---- MODULE Spec2Model ----
(***************************************************************************)
(* A model of dgitcore/datasets/files.py: the file-intake engine (add,     *)
(* add_files, add_link, add_file_normal) and the execution-trace capture   *)
(* engine (find_executable_commitpath, extract_files).                     *)
(*                                                                         *)
(* Strings and paths are sequences of one-character strings, so that       *)
(* os.path.basename, os.path.join, the "://" test, the HOME substring test *)
(* and fnmatch are computed and not assumed.                               *)
(***************************************************************************)
EXTENDS Integers, Sequences, FiniteSets, TLC

(***************************************************************************)
(* Bounds of the model                                                     *)
(***************************************************************************)
MaxArgs == 2
MaxManifest == 2
MaxCalls == 1
ConcMaxArgs == 1
ConcMaxManifest == 1
MaxFindArgs == 2
MaxLog == 2
MaxIncludes == 2
MaxPrompts == 2

(***************************************************************************)
(* Strings                                                                 *)
(***************************************************************************)
\* `t in s` of Python for strings: t occurs in s as a contiguous substring
Contains(s, t) ==
  \E i \in 0..(Len(s) - Len(t)) : SubSeq(s, i + 1, i + Len(t)) = t

StartsWith(s, t) == Len(t) <= Len(s) /\ SubSeq(s, 1, Len(t)) = t

\* index of the last "/" of s, 0 when there is none (str.rfind + 1)
LastSlash(s) ==
  IF \E i \in 1..Len(s) : s[i] = "/"
  THEN CHOOSE i \in 1..Len(s) : s[i] = "/" /\ \A j \in (i + 1)..Len(s) : s[j] # "/"
  ELSE 0

\* os.path.basename: what follows the last slash
Basename(s) == SubSeq(s, LastSlash(s) + 1, Len(s))

RECURSIVE RStripSlash(_)
RStripSlash(s) ==
  IF s # <<>> /\ s[Len(s)] = "/" THEN RStripSlash(SubSeq(s, 1, Len(s) - 1)) ELSE s

\* os.path.dirname: the head up to the last slash, trailing slashes removed
\* unless the head is nothing but slashes
Dirname(s) ==
  LET head == SubSeq(s, 1, LastSlash(s))
  IN  IF head # <<>> /\ (\E i \in 1..Len(head) : head[i] # "/")
      THEN RStripSlash(head) ELSE head

\* os.path.join of two components
Join(a, b) ==
  IF StartsWith(b, <<"/">>) THEN b
  ELSE IF a = <<>> \/ a[Len(a)] = "/" THEN a \o b
  ELSE a \o <<"/">> \o b

\* the working directory of the process
Cwd == <<"/", "w">>

\* os.path.relpath(p, ".") with the working directory Cwd (one level deep)
Relpath(p) ==
  IF StartsWith(p, Cwd \o <<"/">>) THEN SubSeq(p, Len(Cwd) + 2, Len(p))
  ELSE IF StartsWith(p, <<"/">>) THEN <<".", ".">> \o p
  ELSE p

\* all sequences over S of length at most n
SeqsUpTo(S, n) == UNION {[1..k -> S] : k \in 0..n}

(***************************************************************************)
(* The paths given to add and add_files                                    *)
(***************************************************************************)
F_da == <<"d", "/", "a">>
F_ea == <<"e", "/", "a">>
F_mb == <<"m", "/", "b">>
L_sa == <<"s", ":", "/", "/", "a">>
\* local files that can be read, and one that cannot (compute_sha256 raises)
Readable == {F_da, F_ea}
PathsIn == {F_da, F_ea, L_sa, F_mb}
Dot == <<".">>
TargetDirs == {Dot, <<"t">>}
NoPath == <<>>

IsLink(f) == Contains(f, <<":", "/", "/">>)

\* checksum of a readable local file (one value per file)
compute_sha256(f) == <<"#">> \o f

add_link_by_basename(f, u) ==
  << Basename(f),
     [type |-> "data", generator |-> FALSE, uuid |-> u, relativepath |-> f,
      sha256 |-> <<>>, localfullpath |-> NoPath, localrelativepath |-> NoPath] >>

add_link(f, u) ==
  << f,
     [type |-> "data", generator |-> FALSE, uuid |-> u, relativepath |-> f,
      sha256 |-> <<>>, localfullpath |-> NoPath, localrelativepath |-> NoPath] >>

add_file_normal(f, targetdir, generator, script, u) ==
  LET basename == Basename(f)
      relativepath == IF targetdir # Dot THEN Join(targetdir, basename) ELSE basename
      filetype == IF script THEN (IF generator THEN "generator" ELSE "script")
                  ELSE "data"
  IN  << basename,
         [type |-> filetype, generator |-> generator, uuid |-> u,
          relativepath |-> relativepath, sha256 |-> compute_sha256(f),
          localfullpath |-> f, localrelativepath |-> Relpath(f)] >>

\* add_files raises when a local file cannot be read (no record is returned)
AddFilesRaises(args) ==
  \E k \in 1..Len(args) : ~IsLink(args[k]) /\ args[k] \notin Readable

\* the loop of add_files from position k on: seen is the list of keys of the
\* batch so far, files the records so far, ts the timestamp of the batch and
\* u0 the number of uuids handed out before the call
RECURSIVE AddFilesFrom(_, _, _, _, _, _, _, _, _)
AddFilesFrom(args, k, seen, files, targetdir, generator, script, ts, u0) ==
  IF k > Len(args) THEN files
  ELSE
    LET f == args[k]
        pr == IF ~IsLink(f)
              THEN add_file_normal(f, targetdir, generator, script, u0 + k)
              ELSE add_link(f, u0 + k)
        base == pr[1]
        isnew == \A j \in 1..Len(seen) : seen[j] # base
        update == ("change" :> (IF isnew THEN "add" ELSE "update"))
                    @@ ("ts" :> ts) @@ pr[2]
    IN  AddFilesFrom(args, k + 1, IF isnew THEN Append(seen, base) ELSE seen,
                     Append(files, update), targetdir, generator, script, ts, u0)

add_files(args, targetdir, generator, script, ts, u0) ==
  AddFilesFrom(args, 1, <<>>, <<>>, targetdir, generator, script, ts, u0)

(***************************************************************************)
(* The manifest merge of add                                               *)
(***************************************************************************)
\* the positions of resources whose relativepath is that of h
Matches(resources, h) ==
  {i \in 1..Len(resources) : resources[i].relativepath = h.relativepath}

UpsertNoBreak(resources, h) ==
  IF Matches(resources, h) # {}
  THEN [i \in 1..Len(resources) |->
          IF i \in Matches(resources, h) THEN h ELSE resources[i]]
  ELSE Append(resources, h)

UpsertAppendOnly(resources, h) == Append(resources, h)

UpsertNoAppend(resources, h) ==
  IF Matches(resources, h) # {}
  THEN LET i == CHOOSE m \in Matches(resources, h) :
                  \A n \in Matches(resources, h) : m <= n
       IN  [resources EXCEPT ![i] = h]
  ELSE resources

\* one turn of the loop `for h in files`: scan, replace the first match and
\* break, append when nothing matched
Upsert(resources, h) ==
  IF Matches(resources, h) # {}
  THEN LET i == CHOOSE m \in Matches(resources, h) :
                  \A n \in Matches(resources, h) : m <= n
       IN  [resources EXCEPT ![i] = h]
  ELSE Append(resources, h)

(***************************************************************************)
(* fnmatch                                                                 *)
(***************************************************************************)
\* fnmatch.fnmatch(s, p) for patterns made of literal characters, "?" and "*"
RECURSIVE fnmatch(_, _)
fnmatch(s, p) ==
  IF p = <<>> THEN s = <<>>
  ELSE IF p[1] = "*"
       THEN \E n \in 0..Len(s) : fnmatch(SubSeq(s, n + 1, Len(s)), Tail(p))
  ELSE IF s = <<>> THEN FALSE
  ELSE (p[1] = "?" \/ p[1] = s[1]) /\ fnmatch(Tail(s), Tail(p))

Pat_c == <<"*", ".", "c">>
Pat_a == <<"a", "*">>
Pat_d == <<"d", "/", "*">>
Patterns == {Pat_c, Pat_a, Pat_d}

(***************************************************************************)
(* State                                                                   *)
(***************************************************************************)
VARIABLES
  manifest,   \* the resources array of datapackage.json at the repository root
  proc,       \* per operating-system process running add: its position and locals
  now,        \* the wall clock read by datetime.now()
  uuidctr,    \* the number of uuids handed out by uuid.uuid1()
  writes,     \* how many times datapackage.json has been rewritten
  lim,        \* the inputs the callers draw from
  afs,        \* a direct call of add_files: its inputs and its outcome
  fnd,        \* a call of find_executable_commitpath
  ext         \* a call of extract_files

vars == <<manifest, proc, now, uuidctr, writes, lim, afs, fnd, ext>>

Idle == [pc |-> "idle"]

\* an entry already in the manifest before the first call
OldEntry(rp, u) ==
  [type |-> "data", generator |-> FALSE, uuid |-> u, relativepath |-> rp,
   sha256 |-> <<>>, localfullpath |-> NoPath, localrelativepath |-> NoPath,
   change |-> "add", ts |-> 0]

\* relativepaths of the entries the manifest starts with
InitPaths == {<<"a">>, L_sa}

Manifests(n) ==
  {[i \in 1..Len(rps) |-> OldEntry(rps[i], 0 - i)] : rps \in SeqsUpTo(InitPaths, n)}

\* a process that has not called add yet
FreshProc ==
  [pc |-> "idle", calls |-> 0, args |-> <<>>, absent |-> FALSE, execute |-> FALSE,
   targetdir |-> Dot, includes |-> {}, files |-> <<>>, package |-> <<>>,
   pre |-> <<>>, prev |-> <<>>, k |-> 0, copied |-> FALSE, read |-> FALSE,
   wrote |-> FALSE, seen |-> 0, stale |-> FALSE, error |-> "none",
   delegated |-> FALSE]

(***************************************************************************)
(* add                                                                     *)
(***************************************************************************)
\* what a call of add starts from: the arguments, and the locals cleared
Called(p, args, absent, execute, targetdir, includes) ==
  [FreshProc EXCEPT !.calls = proc[p].calls + 1, !.args = args, !.absent = absent,
                    !.execute = execute, !.targetdir = targetdir,
                    !.includes = includes]

CanCall(p) ==
  /\ proc[p].pc \in {"idle", "done", "error"}
  /\ proc[p].calls < lim.calls

\* add(execute=False): files = add_files(...) returns the batch
AddGather(p) ==
  /\ CanCall(p)
  /\ \E args \in SeqsUpTo(PathsIn, lim.args), targetdir \in TargetDirs :
       /\ ~AddFilesRaises(args)
       /\ proc' = [proc EXCEPT ![p] =
            [Called(p, args, FALSE, FALSE, targetdir, {}) EXCEPT
               !.pc = "gathered",
               !.files = add_files(args, targetdir, FALSE, FALSE, now, uuidctr)]]
       /\ uuidctr' = uuidctr + Len(args)
  /\ now' = now + 1
  /\ UNCHANGED <<manifest, writes, lim, afs, fnd, ext>>

\* add(execute=False): add_files raises, on an absent path list (`for f in
\* None`) or on a local file that cannot be read
AddGatherRaises(p) ==
  /\ CanCall(p)
  /\ \E args \in SeqsUpTo(PathsIn, lim.args), absent \in lim.absent,
        targetdir \in TargetDirs :
       /\ absent => args = <<>>
       /\ absent \/ AddFilesRaises(args)
       /\ proc' = [proc EXCEPT ![p] =
            [Called(p, args, absent, FALSE, targetdir, {}) EXCEPT
               !.pc = "error",
               !.error = IF absent THEN "TypeError" ELSE "IOError"]]
  /\ now' = now + 1
  /\ UNCHANGED <<manifest, uuidctr, writes, lim, afs, fnd, ext>>

\* add(execute=True): the call run_executable(repomanager, ...) names
\* `repomanager`, which is neither a parameter of add nor a name of the
\* module: evaluating the arguments raises NameError before the call is made
AddExecute(p) ==
  /\ CanCall(p)
  /\ TRUE \in lim.execute
  /\ \E args \in SeqsUpTo(PathsIn, lim.args), includes \in {{Pat_c}} :
       proc' = [proc EXCEPT ![p] =
            [Called(p, args, FALSE, TRUE, Dot, includes) EXCEPT
               !.pc = "error", !.error = "NameError"]]
  /\ UNCHANGED <<manifest, now, uuidctr, writes, lim, afs, fnd, ext>>

\* `if files is not None and len(files) > 0` is false: return
AddNothing(p) ==
  /\ proc[p].pc = "gathered"
  /\ Len(proc[p].files) = 0
  /\ proc' = [proc EXCEPT ![p].pc = "done"]
  /\ UNCHANGED <<manifest, now, uuidctr, writes, lim, afs, fnd, ext>>

\* repo.manager.add_files(repo, files)
AddCopy(p) ==
  /\ proc[p].pc = "gathered"
  /\ Len(proc[p].files) > 0
  /\ proc' = [proc EXCEPT ![p].pc = "copied", ![p].copied = TRUE]
  /\ UNCHANGED <<manifest, now, uuidctr, writes, lim, afs, fnd, ext>>

\* package = json.loads(open(datapath).read())
AddLoad(p) ==
  /\ proc[p].pc = "copied"
  /\ proc' = [proc EXCEPT ![p].pc = "loaded", ![p].read = TRUE,
                          ![p].package = manifest, ![p].pre = manifest,
                          ![p].prev = manifest, ![p].seen = writes, ![p].k = 1]
  /\ UNCHANGED <<manifest, now, uuidctr, writes, lim, afs, fnd, ext>>

\* one turn of `for h in files`
AddMerge(p) ==
  /\ proc[p].pc = "loaded"
  /\ proc[p].k <= Len(proc[p].files)
  /\ proc' = [proc EXCEPT ![p].prev = proc[p].package,
                          ![p].package = Upsert(proc[p].package,
                                                proc[p].files[proc[p].k]),
                          ![p].k = proc[p].k + 1]
  /\ UNCHANGED <<manifest, now, uuidctr, writes, lim, afs, fnd, ext>>

\* fd.write(json.dumps(package, indent=4)), and return
AddWrite(p) ==
  /\ proc[p].pc = "loaded"
  /\ proc[p].k > Len(proc[p].files)
  /\ manifest' = proc[p].package
  /\ writes' = writes + 1
  /\ proc' = [proc EXCEPT ![p].pc = "done", ![p].wrote = TRUE,
                          ![p].stale = (proc[p].seen # writes)]
  /\ UNCHANGED <<now, uuidctr, lim, afs, fnd, ext>>

\* one process, calling add again and again
InitAdd ==
  /\ manifest \in Manifests(MaxManifest)
  /\ proc = [p \in {1} |-> FreshProc]
  /\ now = 1
  /\ uuidctr = 0
  /\ writes = 0
  /\ lim = [args |-> MaxArgs, calls |-> MaxCalls, absent |-> BOOLEAN,
            execute |-> BOOLEAN]
  /\ afs = Idle
  /\ fnd = Idle
  /\ ext = Idle

Next ==
  \/ \E p \in DOMAIN proc : AddGather(p)
  \/ \E p \in DOMAIN proc : AddGatherRaises(p)
  \/ \E p \in DOMAIN proc : AddExecute(p)
  \/ \E p \in DOMAIN proc : AddNothing(p)
  \/ \E p \in DOMAIN proc : AddCopy(p)
  \/ \E p \in DOMAIN proc : AddLoad(p)
  \/ \E p \in DOMAIN proc : AddMerge(p)
  \/ \E p \in DOMAIN proc : AddWrite(p)

Spec == InitAdd /\ [][Next]_vars

\* two processes, each calling add(execute=False) once on the same repository
InitConc ==
  /\ manifest \in Manifests(ConcMaxManifest)
  /\ proc = [p \in {1, 2} |-> FreshProc]
  /\ now = 1
  /\ uuidctr = 0
  /\ writes = 0
  /\ lim = [args |-> ConcMaxArgs, calls |-> 1, absent |-> {FALSE},
            execute |-> {FALSE}]
  /\ afs = Idle
  /\ fnd = Idle
  /\ ext = Idle

NextConc ==
  \/ \E p \in DOMAIN proc : AddGather(p)
  \/ \E p \in DOMAIN proc : AddGatherRaises(p)
  \/ \E p \in DOMAIN proc : AddNothing(p)
  \/ \E p \in DOMAIN proc : AddCopy(p)
  \/ \E p \in DOMAIN proc : AddLoad(p)
  \/ \E p \in DOMAIN proc : AddMerge(p)
  \/ \E p \in DOMAIN proc : AddWrite(p)

SpecConc == InitConc /\ [][NextConc]_vars

(***************************************************************************)
(* add_files called on its own                                             *)
(***************************************************************************)
InitFiles ==
  /\ afs \in [pc : {"called"}, args : SeqsUpTo(PathsIn, MaxArgs),
              targetdir : TargetDirs, generator : BOOLEAN, script : BOOLEAN,
              t0 : {1}, out : {<<>>}]
  /\ manifest = <<>>
  /\ proc = <<>>
  /\ now = 1
  /\ uuidctr = 0
  /\ writes = 0
  /\ lim = [args |-> MaxArgs, calls |-> 0, absent |-> {}, execute |-> {}]
  /\ fnd = Idle
  /\ ext = Idle

\* add_files runs to its return
AddFilesReturn ==
  /\ afs.pc = "called"
  /\ ~AddFilesRaises(afs.args)
  /\ afs' = [afs EXCEPT !.pc = "returned",
                        !.out = add_files(afs.args, afs.targetdir, afs.generator,
                                          afs.script, now, uuidctr)]
  /\ now' = now + 1
  /\ uuidctr' = uuidctr + Len(afs.args)
  /\ UNCHANGED <<manifest, proc, writes, lim, fnd, ext>>

\* compute_sha256 fails on a file that cannot be read: nothing is returned
AddFilesAbort ==
  /\ afs.pc = "called"
  /\ AddFilesRaises(afs.args)
  /\ afs' = [afs EXCEPT !.pc = "raised"]
  /\ now' = now + 1
  /\ UNCHANGED <<manifest, proc, uuidctr, writes, lim, fnd, ext>>

NextFiles ==
  \/ AddFilesReturn
  \/ AddFilesAbort

SpecFiles == InitFiles /\ [][NextFiles]_vars

(***************************************************************************)
(* Claims about add and add_files                                          *)
(***************************************************************************)
Finished(p) == proc[p].pc \in {"done", "error"} /\ proc[p].calls > 0

\* the relativepaths of a resources array are pairwise distinct
DistinctPaths(resources) ==
  \A i, j \in 1..Len(resources) :
    resources[i].relativepath = resources[j].relativepath => i = j

HasPath(resources, rp) ==
  \E i \in 1..Len(resources) : resources[i].relativepath = rp

\* C1: merging one record h into the resources array is an upsert keyed by
\* relativepath: when some entry has h's relativepath, the first such entry is
\* replaced at its index, the length is unchanged and every other position
\* keeps its entry; otherwise h is appended and the length grows by one.
C1_UpsertByRelativepath ==
  \A p \in DOMAIN proc :
    (proc[p].pc = "loaded" /\ proc[p].k > 1) =>
      LET old == proc[p].prev
          new == proc[p].package
          h == proc[p].files[proc[p].k - 1]
          hits == {i \in 1..Len(old) : old[i].relativepath = h.relativepath}
      IN  IF hits # {}
          THEN /\ Len(new) = Len(old)
               /\ \A i \in hits :
                    IF \A j \in hits : i <= j THEN new[i] = h ELSE new[i] = old[i]
               /\ \A i \in (1..Len(old)) \ hits : new[i] = old[i]
          ELSE /\ Len(new) = Len(old) + 1
               /\ new[Len(new)] = h
               /\ \A i \in 1..Len(old) : new[i] = old[i]

\* a record has just replaced the first of two entries with its relativepath,
\* and another has just been appended
C1_Witness ==
  \E p \in DOMAIN proc :
    /\ proc[p].pc = "loaded"
    /\ proc[p].k = 3
    /\ Len(proc[p].pre) = 2
    /\ proc[p].pre[1].relativepath = proc[p].pre[2].relativepath
    /\ proc[p].files[1].relativepath = proc[p].pre[1].relativepath
    /\ proc[p].package[1] = proc[p].files[1]
    /\ proc[p].package[2] = proc[p].pre[2]
    /\ Len(proc[p].package) = 3

\* the key the batch is deduplicated on: the basename of a local file, the
\* whole path of a link
BatchKey(f) == IF IsLink(f) THEN f ELSE Basename(f)

\* C2: add_files returns one record per input path, in input order; a record
\* is tagged "add" exactly when its key (basename of a local file, full path
\* of a link) did not occur earlier in the batch and "update" otherwise; and
\* every record carries the timestamp read once before the first path.
C2_BatchTagsAndTimestamp ==
  afs.pc = "returned" =>
    /\ Len(afs.out) = Len(afs.args)
    /\ \A k \in 1..Len(afs.args) :
         /\ IF IsLink(afs.args[k])
            THEN afs.out[k].relativepath = afs.args[k]
            ELSE afs.out[k].localfullpath = afs.args[k]
         /\ afs.out[k].change \in {"add", "update"}
         /\ afs.out[k].change = "add" <=>
              ~\E j \in 1..(k - 1) : BatchKey(afs.args[j]) = BatchKey(afs.args[k])
         /\ afs.out[k].ts = afs.t0

\* two different local files with one basename: "add", then "update", with one
\* timestamp
C2_Witness ==
  /\ afs.pc = "returned"
  /\ Len(afs.args) = 2
  /\ ~IsLink(afs.args[1])
  /\ afs.args[1] # afs.args[2]
  /\ Basename(afs.args[1]) = Basename(afs.args[2])
  /\ afs.out[1].change = "add"
  /\ afs.out[2].change = "update"
  /\ afs.out[1].ts = afs.out[2].ts

\* C3: add(execute=True) delegates to run_executable with the given args and
\* includes, and goes on to the copy and the manifest merge as add(execute=
\* False) does: it does not end before the delegation has been made.
C3_ExecuteDelegates ==
  \A p \in DOMAIN proc :
    (Finished(p) /\ proc[p].execute) =>
      (proc[p].delegated /\ proc[p].error = "none")

\* C8: add(execute=False) with an empty or absent path list ends without an
\* error, copies nothing and neither reads nor rewrites datapackage.json.
C8_EmptyOrAbsentIsNoop ==
  \A p \in DOMAIN proc :
    (Finished(p) /\ ~proc[p].execute /\ proc[p].args = <<>>) =>
      /\ proc[p].pc = "done"
      /\ proc[p].error = "none"
      /\ ~proc[p].copied
      /\ ~proc[p].read
      /\ ~proc[p].wrote

\* C9: when no add rewrote the manifest between another add's read and its
\* rewrite (the calls are serialized), the final manifest has an entry for
\* every relativepath of both operations.
C9_SerializedKeepsAll ==
  ((\A p \in DOMAIN proc : Finished(p)) /\ (\A p \in DOMAIN proc : ~proc[p].stale)) =>
    \A p \in DOMAIN proc :
      \A k \in 1..Len(proc[p].files) :
        HasPath(manifest, proc[p].files[k].relativepath)

\* lost update: both operations read the manifest before either rewrote it,
\* both rewrote it, and a record of one of them is in no entry of the manifest
C9_Witness ==
  /\ \A p \in DOMAIN proc : proc[p].pc = "done" /\ proc[p].wrote
  /\ \E p \in DOMAIN proc : proc[p].stale
  /\ \A p \in DOMAIN proc : proc[p].seen = 0
  /\ \E p \in DOMAIN proc :
       \E k \in 1..Len(proc[p].files) :
         ~HasPath(manifest, proc[p].files[k].relativepath)

\* C10: when the relativepaths of the manifest are pairwise distinct before an
\* add, they are pairwise distinct after it, and each relativepath of the
\* batch has exactly one entry: the last record of the batch with that path.
C10_DistinctPathsPreserved ==
  \A p \in DOMAIN proc :
    (proc[p].pc = "done" /\ proc[p].wrote /\ DistinctPaths(proc[p].pre)) =>
      /\ DistinctPaths(manifest)
      /\ \A k \in 1..Len(proc[p].files) :
           LET f == proc[p].files
               last == CHOOSE j \in 1..Len(f) :
                         /\ f[j].relativepath = f[k].relativepath
                         /\ \A m \in 1..Len(f) :
                              f[m].relativepath = f[k].relativepath => m <= j
           IN  \E i \in 1..Len(manifest) :
                 /\ manifest[i] = f[last]
                 /\ \A n \in 1..Len(manifest) :
                      manifest[n].relativepath = f[k].relativepath => n = i

\* a batch with two records of one relativepath has been merged into a
\* manifest that already had that relativepath
C10_Witness ==
  \E p \in DOMAIN proc :
    /\ proc[p].pc = "done"
    /\ proc[p].wrote
    /\ DistinctPaths(proc[p].pre)
    /\ Len(proc[p].files) = 2
    /\ proc[p].files[1].relativepath = proc[p].files[2].relativepath
    /\ HasPath(proc[p].pre, proc[p].files[1].relativepath)
    /\ Len(manifest) = Len(proc[p].pre)

(***************************************************************************)
(* find_executable_commitpath                                              *)
(***************************************************************************)
\* os.environ['HOME']
Home == <<"/", "h">>

A_hx == <<"/", "h", "/", "x">>
A_bt == <<"/", "b", "/", "t">>
A_bh == <<"/", "b", "/", "h">>
A_r == <<"r">>
ArgPaths == {A_hx, A_bt, A_bh, A_r}

\* os.path.realpath of an argument (no symbolic links on the way)
Realpath(f) == IF StartsWith(f, <<"/">>) THEN f ELSE Join(Cwd, f)

None == <<>>

\* what repomanager.permalink(repo, f) answers for a path the repository
\* manager ties to a commit
RepoRelpath(f) == <<"~">> \o Basename(f)
Permalink(f) == <<"@">> \o f

DecideFirstExisting(f, exists, linked) ==
  IF f \notin exists THEN "missing"
  ELSE IF Realpath(f) \in linked THEN "permalink"
  ELSE "home"

\* what one turn of `for f in args` does with f
Decide(f, exists, linked) ==
  IF f \notin exists THEN "missing"
  ELSE IF Realpath(f) \in linked THEN "permalink"
  ELSE IF Contains(Realpath(f), Home) THEN "home"
  ELSE "pass"

InitFind ==
  /\ fnd \in [pc : {"loop"}, args : SeqsUpTo(ArgPaths, MaxFindArgs),
              exists : SUBSET ArgPaths,
              linked : SUBSET {Realpath(f) : f \in ArgPaths},
              i : {1}, consulted : {<<>>},
              result : {[executable |-> None, commit |-> None]}]
  /\ fnd.linked \subseteq {Realpath(f) : f \in fnd.exists}
  /\ manifest = <<>>
  /\ proc = <<>>
  /\ now = 1
  /\ uuidctr = 0
  /\ writes = 0
  /\ lim = [args |-> MaxFindArgs, calls |-> 0, absent |-> {}, execute |-> {}]
  /\ afs = Idle
  /\ ext = Idle

FindTurn(outcome) ==
  /\ fnd.pc = "loop"
  /\ fnd.i <= Len(fnd.args)
  /\ Decide(fnd.args[fnd.i], fnd.exists, fnd.linked) = outcome

\* os.path.exists(f) is false: next argument
FindMissing ==
  /\ FindTurn("missing")
  /\ fnd' = [fnd EXCEPT !.i = fnd.i + 1, !.consulted = Append(fnd.consulted, fnd.i)]
  /\ UNCHANGED <<manifest, proc, now, uuidctr, writes, lim, afs, ext>>

\* the permalink is not None: return (relpath, permalink)
FindPermalink ==
  /\ FindTurn("permalink")
  /\ fnd' = [fnd EXCEPT !.pc = "returned",
                        !.consulted = Append(fnd.consulted, fnd.i),
                        !.result = [executable |-> RepoRelpath(Realpath(fnd.args[fnd.i])),
                                    commit |-> Permalink(Realpath(fnd.args[fnd.i]))]]
  /\ UNCHANGED <<manifest, proc, now, uuidctr, writes, lim, afs, ext>>

\* no permalink and os.environ['HOME'] in f: return (f, None)
FindHome ==
  /\ FindTurn("home")
  /\ fnd' = [fnd EXCEPT !.pc = "returned",
                        !.consulted = Append(fnd.consulted, fnd.i),
                        !.result = [executable |-> Realpath(fnd.args[fnd.i]),
                                    commit |-> None]]
  /\ UNCHANGED <<manifest, proc, now, uuidctr, writes, lim, afs, ext>>

\* the path exists, has no permalink and HOME is not in it: next argument
FindPass ==
  /\ FindTurn("pass")
  /\ fnd' = [fnd EXCEPT !.i = fnd.i + 1, !.consulted = Append(fnd.consulted, fnd.i)]
  /\ UNCHANGED <<manifest, proc, now, uuidctr, writes, lim, afs, ext>>

\* the loop is over: return (None, None)
FindNone ==
  /\ fnd.pc = "loop"
  /\ fnd.i > Len(fnd.args)
  /\ fnd' = [fnd EXCEPT !.pc = "returned",
                        !.result = [executable |-> None, commit |-> None]]
  /\ UNCHANGED <<manifest, proc, now, uuidctr, writes, lim, afs, ext>>

NextFind ==
  \/ FindMissing
  \/ FindPermalink
  \/ FindHome
  \/ FindPass
  \/ FindNone

SpecFind == InitFind /\ [][NextFind]_vars

\* the path is the home directory or lies below it
UnderHome(f) == f = Home \/ StartsWith(f, Home \o <<"/">>)

\* C4 as stated: the first argument naming an existing path decides the result
\* (permalink: (relative form, permalink); none but under the home directory:
\* (path, no permalink)); no existing argument: (absent, absent); and no
\* argument after the first existing one is consulted.
C4_FirstExistingDecides ==
  fnd.pc = "returned" =>
    LET E == {i \in 1..Len(fnd.args) : fnd.args[i] \in fnd.exists}
    IN  IF E = {}
        THEN fnd.result = [executable |-> None, commit |-> None]
        ELSE LET first == CHOOSE i \in E : \A j \in E : i <= j
                 real == Realpath(fnd.args[first])
             IN  /\ real \in fnd.linked =>
                      fnd.result = [executable |-> RepoRelpath(real),
                                    commit |-> Permalink(real)]
                 /\ (real \notin fnd.linked /\ UnderHome(real)) =>
                      fnd.result = [executable |-> real, commit |-> None]
                 /\ \A n \in 1..Len(fnd.consulted) : fnd.consulted[n] <= first

\* C4 amended: the result is decided by the first argument that names an
\* existing path and either has a permalink or has the HOME string in its
\* resolved path; existing arguments with neither are passed over; the
\* arguments are consulted in order up to the deciding one and no further; the
\* result is (absent, absent) when no argument decides.
C4_FirstDecisiveArgument ==
  fnd.pc = "returned" =>
    LET D == {i \in 1..Len(fnd.args) :
                /\ fnd.args[i] \in fnd.exists
                /\ \/ Realpath(fnd.args[i]) \in fnd.linked
                   \/ Contains(Realpath(fnd.args[i]), Home)}
    IN  IF D = {}
        THEN /\ fnd.result = [executable |-> None, commit |-> None]
             /\ fnd.consulted = [n \in 1..Len(fnd.args) |-> n]
        ELSE LET first == CHOOSE i \in D : \A j \in D : i <= j
                 real == Realpath(fnd.args[first])
             IN  /\ fnd.consulted = [n \in 1..first |-> n]
                 /\ IF real \in fnd.linked
                    THEN fnd.result = [executable |-> RepoRelpath(real),
                                       commit |-> Permalink(real)]
                    ELSE fnd.result = [executable |-> real, commit |-> None]

\* the first existing argument was passed over and a later one decided
C4_Witness ==
  /\ fnd.pc = "returned"
  /\ Len(fnd.args) = 2
  /\ fnd.args[1] \in fnd.exists
  /\ fnd.consulted = <<1, 2>>
  /\ fnd.result.commit # None

(***************************************************************************)
(* extract_files                                                           *)
(***************************************************************************)
\* the paths the trace log names: two spellings of one file of the working
\* directory, a file of a subdirectory, and the subdirectory itself
R_a == <<"/", "w", "/", "a", ".", "c">>
R_a2 == <<"a", ".", "c">>
R_db == <<"/", "w", "/", "d", "/", "b", ".", "c">>
R_d == <<"/", "w", "/", "d">>
RawPaths == {R_a, R_a2, R_db, R_d}
\* os.path.exists(p) and os.path.isfile(p)
RegularFiles == {R_a, R_a2, R_db}

\* A line of the trace log, by what the code reads of it: how the call is
\* written ("b": open(b'...'; "dq": open("..."; "sq": open('...', which neither
\* pattern accepts; "none": no `open(` in the line), the path and whether the
\* line holds O_RDONLY
LogLines ==
  [fmt : {"b", "dq"}, path : RawPaths, rdonly : BOOLEAN]
    \cup {[fmt |-> "sq", path |-> R_a, rdonly |-> TRUE],
          [fmt |-> "none", path |-> R_a, rdonly |-> TRUE]}

\* 'open(' in l
HasOpen(l) == l.fmt # "none"

\* the two re.search calls: the path, or None when neither pattern matches
MatchedFile(l) == IF l.fmt \in {"b", "dq"} THEN l.path ELSE None

Range(q) == {q[i] : i \in 1..Len(q)}

AddActionNoDedup(files, m, action) ==
  IF m \notin DOMAIN files THEN (m :> <<action>>) @@ files
  ELSE [files EXCEPT ![m] = Append(@, action)]

\* files[m] = [action] for a new path, append for a new action of a known one
AddAction(files, m, action) ==
  IF m \notin DOMAIN files THEN (m :> <<action>>) @@ files
  ELSE IF action \notin Range(files[m]) THEN [files EXCEPT ![m] = Append(@, action)]
  ELSE files

\* `for i in includes` from position k on
RECURSIVE IncludeLoop(_, _, _, _, _)
IncludeLoop(files, m, action, includes, k) ==
  IF k > Len(includes) THEN files
  ELSE IncludeLoop(IF fnmatch(m, includes[k]) THEN AddAction(files, m, action)
                   ELSE files,
                   m, action, includes, k + 1)

\* one turn of `for l in lines`
ScanLine(files, l, includes) ==
  IF ~HasOpen(l) \/ MatchedFile(l) = None THEN files
  ELSE IF MatchedFile(l) \in RegularFiles
       THEN IncludeLoop(files, Relpath(MatchedFile(l)),
                        IF l.rdonly THEN "input" ELSE "output", includes, 1)
  ELSE files

RECURSIVE ScanLog(_, _, _, _)
ScanLog(files, lines, includes, n) ==
  IF n > Len(lines) THEN files
  ELSE ScanLog(ScanLine(files, lines[n], includes), lines, includes, n + 1)

\* the order of the characters (their code points)
Alphabet == <<".", "/", "a", "b", "c", "d", "o", "w", "z">>
Ord(c) == CHOOSE i \in 1..Len(Alphabet) : Alphabet[i] = c

\* s < t for Python strings
LexLess(s, t) ==
  \E k \in 1..(Len(s) + 1) :
    /\ k <= Len(t)
    /\ SubSeq(s, 1, k - 1) = SubSeq(t, 1, k - 1)
    /\ (k > Len(s) \/ Ord(s[k]) < Ord(t[k]))

\* list(files.keys()) sorted
RECURSIVE SortedKeys(_)
SortedKeys(S) ==
  IF S = {} THEN <<>>
  ELSE LET least == CHOOSE x \in S : \A y \in S \ {x} : LexLess(x, y)
       IN  <<least>> \o SortedKeys(S \ {least})

\* [f for f in filenames if f in selected]
RECURSIVE Keep(_, _)
Keep(filenames, selected) ==
  IF filenames = <<>> THEN <<>>
  ELSE (IF Head(filenames) \in selected THEN <<Head(filenames)>> ELSE <<>>)
         \o Keep(Tail(filenames), selected)

\* the directory a file is listed under in the mapping
DirKey(f) == IF Dirname(f) = <<>> THEN Dot ELSE Dirname(f)

\* the mapping presented in the second round: every directory to itself
Prefixes(filenames) ==
  [d \in {DirKey(filenames[i]) : i \in 1..Len(filenames)} |-> d]

\* a name and a directory the operator may type that were not presented
Foreign == <<"z">>
ForeignDir == <<"z">>
TargetChoices == {Dot, <<"o">>}

\* what the operator may leave in the editor in the first round
Selections(filenames) ==
  [kind : {"list"}, items : SUBSET (Range(filenames) \cup {Foreign})]
    \cup [kind : {"empty", "malformed"}, items : {{}}]

\* what the operator may leave in the editor in the second round
Revisions(prefixes) ==
  [kind : {"mapping"},
   map : UNION {[K -> TargetChoices] : K \in SUBSET (DOMAIN prefixes \cup {ForeignDir})}]
    \cup [kind : {"malformed", "empty", "list"}, map : {<<>>}]

NoResponse == [kind |-> "none"]

InitExtract ==
  /\ ext \in [pc : {"called"}, log : SeqsUpTo(LogLines, MaxLog),
              includes : SeqsUpTo(Patterns, MaxIncludes), files : {<<>>},
              filenames : {<<>>}, presented : {<<>>}, prefixes : {<<>>},
              offered : {<<>>},
              resp1 : {NoResponse}, resp2 : {NoResponse}, prompts : {0},
              notified : {0}, result : {<<>>}, error : {"none"}]
  /\ manifest = <<>>
  /\ proc = <<>>
  /\ now = 1
  /\ uuidctr = 0
  /\ writes = 0
  /\ lim = [args |-> MaxLog, calls |-> 0, absent |-> {}, execute |-> {}]
  /\ afs = Idle
  /\ fnd = Idle

extFrame == <<manifest, proc, writes, lim, afs, fnd>>

\* the scan of the trace log: the loop `for l in lines`
ExtractScan ==
  /\ ext.pc = "called"
  /\ ext' = [ext EXCEPT !.pc = "scanned",
                        !.files = ScanLog(<<>>, ext.log, ext.includes, 1)]
  /\ UNCHANGED <<now, uuidctr>>
  /\ UNCHANGED extFrame

\* the scan on its own
SpecTrace == InitExtract /\ [][ExtractScan]_vars

\* len(files) == 0: return []
ExtractNoMatch ==
  /\ ext.pc = "scanned"
  /\ DOMAIN ext.files = {}
  /\ ext' = [ext EXCEPT !.pc = "returned", !.result = <<>>]
  /\ UNCHANGED <<now, uuidctr>>
  /\ UNCHANGED extFrame

\* the sorted names go to the editor
ExtractPresent ==
  /\ ext.pc = "scanned"
  /\ DOMAIN ext.files # {}
  /\ ext' = [ext EXCEPT !.pc = "select",
                        !.filenames = SortedKeys(DOMAIN ext.files),
                        !.presented = SortedKeys(DOMAIN ext.files)]
  /\ UNCHANGED <<now, uuidctr>>
  /\ UNCHANGED extFrame

\* first round, a list with at least one row: the rows kept, then the mapping
ExtractSelect ==
  /\ ext.pc = "select"
  /\ \E r \in Selections(ext.filenames) :
       /\ r.kind = "list"
       /\ r.items # {}
       /\ ext' = [ext EXCEPT !.pc = "mapping", !.resp1 = r,
                             !.filenames = Keep(ext.filenames, r.items),
                             !.prefixes = Prefixes(Keep(ext.filenames, r.items))]
  /\ UNCHANGED <<now, uuidctr>>
  /\ UNCHANGED extFrame

\* first round, the empty list `[]`: return []
ExtractSelectNone ==
  /\ ext.pc = "select"
  /\ \E r \in Selections(ext.filenames) :
       /\ r.kind = "list"
       /\ r.items = {}
       /\ ext' = [ext EXCEPT !.pc = "returned", !.resp1 = r, !.result = <<>>]
  /\ UNCHANGED <<now, uuidctr>>
  /\ UNCHANGED extFrame

\* first round, yaml.load is not in a try: malformed content raises, and empty
\* content loads as None, on which len(selected) raises TypeError
ExtractSelectRaises ==
  /\ ext.pc = "select"
  /\ \E r \in Selections(ext.filenames) :
       /\ r.kind \in {"empty", "malformed"}
       /\ ext' = [ext EXCEPT !.pc = "error", !.resp1 = r,
                             !.error = IF r.kind = "empty" THEN "TypeError"
                                       ELSE "YAMLError"]
  /\ UNCHANGED <<now, uuidctr>>
  /\ UNCHANGED extFrame

\* what `revised` is after the try: the mapping, {} when yaml.load raised
Revised(r) == IF r.kind = "malformed" THEN <<>> ELSE r.map

\* second round, the key sets agree: prefixes = revised, break
ExtractMapAccept ==
  /\ ext.pc = "mapping"
  /\ \E r \in Revisions(ext.prefixes) :
       /\ r.kind \in {"mapping", "malformed"}
       /\ DOMAIN Revised(r) = DOMAIN ext.prefixes
       /\ ext' = [ext EXCEPT !.pc = "build", !.resp2 = r,
                             !.prompts = ext.prompts + 1,
                             !.offered = ext.prefixes,
                             !.prefixes = Revised(r)]
  /\ UNCHANGED <<now, uuidctr>>
  /\ UNCHANGED extFrame

\* second round, the key sets differ: the operator is told and the loop turns
ExtractMapReprompt ==
  /\ ext.pc = "mapping"
  /\ ext.prompts < MaxPrompts
  /\ \E r \in Revisions(ext.prefixes) :
       /\ r.kind \in {"mapping", "malformed"}
       /\ DOMAIN Revised(r) # DOMAIN ext.prefixes
       /\ ext' = [ext EXCEPT !.resp2 = r, !.prompts = ext.prompts + 1,
                             !.offered = ext.prefixes,
                             !.notified = ext.notified + 1]
  /\ UNCHANGED <<now, uuidctr>>
  /\ UNCHANGED extFrame

\* second round, the content loads but is no mapping (empty content loads as
\* None, a list as a list): revised.keys() raises AttributeError
ExtractMapRaises ==
  /\ ext.pc = "mapping"
  /\ \E r \in Revisions(ext.prefixes) :
       /\ r.kind \in {"empty", "list"}
       /\ ext' = [ext EXCEPT !.pc = "error", !.resp2 = r,
                             !.prompts = ext.prompts + 1,
                             !.offered = ext.prefixes,
                             !.error = "AttributeError"]
  /\ UNCHANGED <<now, uuidctr>>
  /\ UNCHANGED extFrame

\* prefixes[""] = prefixes["."]
Aliased(prefixes) ==
  IF Dot \in DOMAIN prefixes THEN (<<>> :> prefixes[Dot]) @@ prefixes ELSE prefixes

\* the record of one selected file
RunOutput(f, files, prefixes, ts, u) ==
  LET target == Aliased(prefixes)[Dirname(f)]
  IN  [relativepath |-> IF target = Dot THEN Basename(f)
                        ELSE Join(target, Basename(f)),
       type |-> "run-output", actions |-> files[f], uuid |-> u,
       sha256 |-> compute_sha256(f), ts |-> ts,
       localrelativepath |-> Relpath(f), localfullpath |-> Join(Cwd, f)]

\* the records are built and returned
ExtractBuild ==
  /\ ext.pc = "build"
  /\ ext' = [ext EXCEPT !.pc = "returned",
                        !.result = [i \in 1..Len(ext.filenames) |->
                                      RunOutput(ext.filenames[i], ext.files,
                                                ext.prefixes, now, uuidctr + i)]]
  /\ now' = now + 1
  /\ uuidctr' = uuidctr + Len(ext.filenames)
  /\ UNCHANGED extFrame

NextExtract ==
  \/ ExtractScan
  \/ ExtractNoMatch
  \/ ExtractPresent
  \/ ExtractSelect
  \/ ExtractSelectNone
  \/ ExtractSelectRaises
  \/ ExtractMapAccept
  \/ ExtractMapReprompt
  \/ ExtractMapRaises
  \/ ExtractBuild

SpecExtract == InitExtract /\ [][NextExtract]_vars

(***************************************************************************)
(* Claims about extract_files                                              *)
(***************************************************************************)
\* the lines of the log that open the regular file whose relative path is m
OpensOf(m) ==
  {n \in 1..Len(ext.log) :
     /\ ext.log[n].fmt \in {"b", "dq"}
     /\ ext.log[n].path \in RegularFiles
     /\ Relpath(ext.log[n].path) = m}

\* C7: after the scan, the matched paths are the relative paths of the regular
\* files some open line names and some include pattern matches; the actions of
\* a matched path hold no action twice, hold "input" exactly when one of its
\* open lines has the read-only flag and "output" exactly when one has not.
C7_ActionsDeduplicated ==
  ext.pc = "scanned" =>
    LET matched == {m \in {Relpath(q) : q \in RegularFiles} :
                      /\ OpensOf(m) # {}
                      /\ \E i \in 1..Len(ext.includes) : fnmatch(m, ext.includes[i])}
    IN  /\ DOMAIN ext.files = matched
        /\ \A m \in matched :
             LET acts == ext.files[m]
             IN  /\ \A i, j \in 1..Len(acts) : acts[i] = acts[j] => i = j
                 /\ \A i \in 1..Len(acts) : acts[i] \in {"input", "output"}
                 /\ (\E i \in 1..Len(acts) : acts[i] = "input")
                      <=> (\E n \in OpensOf(m) : ext.log[n].rdonly)
                 /\ (\E i \in 1..Len(acts) : acts[i] = "output")
                      <=> (\E n \in OpensOf(m) : ~ext.log[n].rdonly)

\* a file read and then written under two spellings, matched by two patterns
C7_Witness ==
  /\ ext.pc = "scanned"
  /\ Len(ext.log) = 2
  /\ ext.log[1].path # ext.log[2].path
  /\ Len(ext.includes) = 2
  /\ ext.includes[1] # ext.includes[2]
  /\ \A i \in 1..2 : fnmatch(R_a2, ext.includes[i])
  /\ R_a2 \in DOMAIN ext.files
  /\ ext.files[R_a2] = <<"input", "output">>

\* the mapping an edited response of the second round stands for: content that
\* does not parse, or is no mapping, counts as the empty mapping
AsMapping(r) == IF r.kind = "mapping" THEN r.map ELSE <<>>

\* C5: in the directory-mapping round, a response whose key set differs from
\* the presented one (content that does not parse or is no mapping counting as
\* the empty mapping) gets the operator notified and the same mapping
\* presented again; the loop is left only with a mapping of exactly the
\* presented keys; and no response ends extract_files with an error.
C5_MappingRoundReprompts ==
  ext.resp2.kind # "none" =>
    /\ ext.pc # "error"
    /\ ext.error = "none"
    /\ DOMAIN AsMapping(ext.resp2) # DOMAIN ext.offered =>
         /\ ext.pc = "mapping"
         /\ ext.notified >= 1
         /\ ext.prefixes = ext.offered
    /\ ext.pc \in {"build", "returned"} => DOMAIN ext.prefixes = DOMAIN ext.offered

\* C6: in the file-selection round the surviving selection is the presented
\* candidates that are still in the edited list; and edited content that is
\* empty or malformed (the operator deleting every row included) is an empty
\* selection: extract_files returns the empty result, without an error and
\* without the directory-mapping prompt.
C6_SelectionRound ==
  ext.resp1.kind # "none" =>
    /\ (ext.resp1.kind = "list" /\ ext.resp1.items # {}) =>
         /\ \A f \in Range(ext.presented) :
              f \in Range(ext.filenames) <=> f \in ext.resp1.items
         /\ Range(ext.filenames) \subseteq Range(ext.presented)
    /\ (ext.resp1.kind \in {"empty", "malformed"} \/ ext.resp1.items = {}) =>
         /\ ext.pc = "returned"
         /\ ext.result = <<>>
         /\ ext.error = "none"
         /\ ext.prompts = 0

====
